---- MODULE Spec2Model ----
(***************************************************************************)
(* meetscribe: the recording controller (the AudioCapture component), the  *)
(* transcribe-audio handler of the main process, the meeting store of App  *)
(* with the Chat component, the WAV conversion and the mixer graph.        *)
(*                                                                         *)
(* The renderer is single-threaded: every action below is one run of a     *)
(* handler or of an async function from one suspension point (await) to    *)
(* the next.  Each invocation of startRecording is a call i with its own   *)
(* position calls[i].pc; the recorder, the streams, the mixer context and  *)
(* the interval that call i creates carry the same index i.                *)
(***************************************************************************)
EXTENDS Integers, Sequences, FiniteSets, TLC

\* ------------------------------------------------------------------ bounds
MaxCalls == 2       \* invocations of startRecording in one behaviour
MaxDuration == 2    \* cap of the duration counter

CallIds == 1..MaxCalls
NoRef == 0
NullStream == <<0, "none">>
TrackKinds == {"systemStream", "micStream", "destination", "microphone"}

\* ------------------------------------------------------- message constants
FallbackWarning == "System audio capture failed. Using microphone instead."
NoAudioMessage == "No audio data recorded. Please try again."
AcquireError == "getUserMedia rejected"
RecorderError == "MediaRecorder failed"
DecodeError == "decodeAudioData rejected"
SaveError == "Failed to save audio file"
EngineError == "engine error"
InvokeError == "transcribe-audio invoke rejected"
Texts == {"", "hello"}
FailedTranscript == "Transcription failed: engine error"
ProgressStatuses == {"downloading", "transcribing", "complete", "error"}

VARIABLES
    recordingState,       \* useState: isRecording, isTranscribing, recordingDuration
    transcript,           \* useState
    error,                \* useState
    progress,             \* useState: "null" or the last progress status
    recordingMode,        \* useState
    mediaRecorderRef,     \* useRef: NoRef or the recorder's index
    audioChunksRef,       \* useRef: sequence of chunks, each named by its recorder
    streamRef,            \* useRef: NullStream or <<call, kind>>
    durationIntervalRef,  \* useRef: NoRef or the interval's index
    audioContextRef,      \* useRef: NoRef or the mixer context's index
    mounted,              \* the component is mounted
    calls,                \* position of invocation i of startRecording
    nextCall,             \* index of the next invocation
    tracks,               \* the live tracks: <<i, k>>, stream k acquired by call i
    mixers,               \* the open mixer AudioContexts, by call
    recorders,            \* MediaRecorder of call i: "inactive", "recording", "stopping"
    timers,               \* the intervals that are scheduled
    proc,                 \* position of processRecording for recorder i, or its outcome
    notified,             \* the texts the cycle of recorder i passed to onTranscriptUpdate
    decodeContexts,       \* the decoding AudioContexts that are open, by cycle
    lastCall,             \* the user operation of the last step, "none" otherwise
    stopRun,              \* 1 after an accepted stop(), 2 after stop() calls right after it
    hVariant,             \* transcribe-audio: which revision of the handler runs
    hpc,                  \* transcribe-audio: position of the handler
    hEvents,              \* transcription-progress statuses sent during the call, in order
    hResult,              \* what the handler resolved with
    outputText,           \* stdout of the engine, accumulated
    errorText,            \* stderr was received (its text goes into the exit message)
    hFiles,               \* the files that exist: "audio", "transcript"
    hExit,                \* how the engine process of the call ended
    appMounted,           \* App: its mount effects have run
    meetings,             \* App useState: sequence of MeetingData
    currentMeetingId,     \* App useState: NoMeeting or a meeting id
    storedChats,          \* localStorage "recording-chats": id -> messages
    disk,                 \* the recordings saved so far, newest first; Gone
                          \* where the files were removed since
    loads,                \* loadRecordings calls awaiting getRecordings
    fetching,             \* per id: loadTranscript calls awaiting the transcript
    fetched,              \* ids whose transcript was requested since the store was built
    chatMessages,         \* Chat useState messages
    isLoading,            \* Chat useState
    chatError,            \* Chat useState error
    flight,               \* NoFlight or the sendMessage call awaiting its response
    turn,                 \* number of sendMessage calls that passed the guard
    turnMeeting,          \* per turn: the meeting selected when it was asked
    previousChats,        \* localStorage "recording-chats" as the last session left it
    audioBuffer,          \* convertToWav: the AudioBuffer decodeAudioData resolved with
    wavBuffer,            \* convertToWav: the bytes of the file, <<>> before it is written
    mixInput,             \* the mixer: the samples of the system and microphone streams
    connections,          \* the mixer: the connect() calls made, <<from, to>>
    gainValue,            \* the mixer: gain.value of the two gain nodes
    mixedTracks,          \* the mixer: the audio tracks of destination.stream
    sources,              \* what getAudioSources resolved with: records of id and name
    sourceId,             \* the chosen source id; NotChosen before, NoSources when it threw
    single                \* the Chat of the single-meeting build: its prop and its state

ctlVars == <<recordingState, transcript, error, progress, recordingMode,
             mediaRecorderRef, audioChunksRef, streamRef, durationIntervalRef,
             audioContextRef, mounted, calls, nextCall, tracks, mixers,
             recorders, timers, proc, notified, decodeContexts>>

vars == <<recordingState, transcript, error, progress, recordingMode,
          mediaRecorderRef, audioChunksRef, streamRef, durationIntervalRef,
          audioContextRef, mounted, calls, nextCall, tracks, mixers,
          recorders, timers, proc, notified, decodeContexts, lastCall, stopRun,
          hVariant, hpc, hEvents, hResult, outputText, errorText, hFiles,
          hExit, appMounted, meetings, currentMeetingId, storedChats, disk, loads,
          fetching, fetched, chatMessages, isLoading, chatError, flight,
          turn, turnMeeting, previousChats, audioBuffer, wavBuffer,
          mixInput, connections, gainValue, mixedTracks, sources, sourceId,
          single>>

appVars == <<appMounted, meetings, currentMeetingId, storedChats, disk, loads,
             fetching, fetched, chatMessages, isLoading, chatError, flight,
             turn, turnMeeting, previousChats>>

hVars == <<hVariant, hpc, hEvents, hResult, outputText, errorText, hFiles,
          hExit>>

wavVars == <<audioBuffer, wavBuffer>>

mixVars == <<mixInput, connections, gainValue, mixedTracks>>

srcVars == <<sources, sourceId>>

\* The variables of convertToWav, of the mixer graph, of the choice of the
\* capture source and of the single-meeting Chat.
fnVars == <<wavVars, mixVars, srcVars, single>>

\* --------------------------------------------- App: the meeting store
MaxRecordings == 2  \* recordings that getRecordings enumerates
MaxTurns == 3       \* sendMessage calls that pass the guard
MaxLoads == 1       \* loadRecordings calls awaiting getRecordings at a time
MaxFetches == 2     \* loadTranscript calls of one meeting awaiting at a time

\* The ids of the recordings, in the order in which they are saved.
RecordingIds == <<"A", "B", "C", "D">>
MeetingIds == {RecordingIds[k] : k \in 1..MaxRecordings}
NoMeeting == "null"
NoFlight == [meeting |-> NoMeeting, updated |-> <<>>, request |-> <<>>]

\* The text of a transcript file: "" when it is empty.
TranscriptTexts == {"", "transcript"}

SYSTEM_PROMPT == "You are an AI meeting assistant"
Placeholder == "No response received."
ApiError == "API request failed"
NetworkError == "Failed to fetch"
JsonError == "Unexpected token in JSON"
ChatFailures == {ApiError, NetworkError, JsonError}

\* What the user types in turn k, and the completion text of its answer.
Question(k) == <<"q1", "q2", "q3", "q4">>[k]
Answer(k) == <<"a1", "a2", "a3", "a4">>[k]

UserMessage(k) == [role |-> "user", content |-> Question(k)]

\* `Meeting Transcript:\n\n${transcript}`
Context(t) == IF t = "" THEN "Meeting Transcript:" ELSE "Meeting Transcript: transcript"

\* A chat of an earlier application session.
OldChat == <<[role |-> "user", content |-> "q0"],
             [role |-> "assistant", content |-> "a0"]>>

NoChats == [id \in {} |-> <<>>]

InitialDisks == {<<>>, <<"A">>}

\* The place of a recording whose files were removed outside the application.
Gone == "gone"

\* What getRecordings enumerates: the recordings that still have their files.
Listing(d) == SelectSeq(d, LAMBDA id : id # Gone)
\* "Z" is a recording of an earlier session whose files are gone.
InitialChats == {NoChats, [id \in {"A", "Z"} |-> OldChat]}

InitStore(d, chats) ==
    /\ appMounted = FALSE
    /\ meetings = <<>>
    /\ currentMeetingId = NoMeeting
    /\ storedChats = chats
    /\ previousChats = chats
    /\ disk = d
    /\ loads = 0
    /\ fetching = [id \in MeetingIds |-> 0]
    /\ fetched = {}
    /\ chatMessages = <<>>
    /\ isLoading = FALSE
    /\ chatError = ""
    /\ flight = NoFlight
    /\ turn = 0
    /\ turnMeeting = [k \in 1..(MaxTurns + 1) |-> NoMeeting]

\* ------------------------------------------------ convertToWav: the buffer
MaxSamples == 2     \* samples per channel of a decoded buffer
MaxChannels == 2    \* channels of a decoded buffer

SampleRates == {8000, 44100, 48000}

\* Float32 samples in units of 1/SampleUnit: 4 is 1.0, -6 is -1.5.
SampleUnit == 4
SampleValues == {-6, -4, -1, 0, 1, 4, 6}

\* The buffers decodeAudioData resolves with.
AudioBuffers ==
    UNION {[numberOfChannels : {cn[1]}, sampleRate : SampleRates,
            length : {cn[2]},
            channels : [1..cn[1] -> [1..cn[2] -> SampleValues]]]
           : cn \in (1..MaxChannels) \X (0..MaxSamples)}

\* No recording is being converted.
NoBuffer == [numberOfChannels |-> 1, sampleRate |-> 8000, length |-> 0,
             channels |-> <<<<>>>>]

InitWav(buf) ==
    /\ audioBuffer = buf
    /\ wavBuffer = <<>>

\* ------------------------------------------- the mixer: streams and nodes
MaxInstants == 2    \* sample instants of the synthetic input streams

\* Samples in units of 1/SampleUnit.
MixSamples == {-4, -1, 0, 2, 4}

MixInputs == [system : [1..MaxInstants -> MixSamples],
              mic : [1..MaxInstants -> MixSamples]]

Silence == [system |-> [t \in 1..MaxInstants |-> 0],
            mic |-> [t \in 1..MaxInstants |-> 0]]

GainNodes == {"systemGain", "micGain"}

\* A GainNode is created with gain 1; no node is connected, and there is no
\* destination stream yet.
InitMix(in) ==
    /\ mixInput = in
    /\ connections = {}
    /\ gainValue = [n \in GainNodes |-> 1]
    /\ mixedTracks = {}

\* ------------------------------------------- the capture sources
MaxSources == 3     \* sources getAudioSources resolves with

\* Source names, as sequences of characters: "Screen 1", "screen", "SCREEN",
\* "Win", "Scree".
SourceNames ==
    {<<"S", "c", "r", "e", "e", "n", " ", "1">>,
     <<"s", "c", "r", "e", "e", "n">>,
     <<"S", "C", "R", "E", "E", "N">>,
     <<"W", "i", "n">>,
     <<"S", "c", "r", "e", "e">>}

SourceIds == <<"source1", "source2", "source3", "source4">>
NotChosen == "none"
NoSources == "No audio sources available"

\* The lists of sources: source k has the id SourceIds[k].
SourceLists ==
    UNION {{[k \in 1..n |-> [id |-> SourceIds[k], name |-> names[k]]]
            : names \in [1..n -> SourceNames]} : n \in 0..MaxSources}

InitSources(list) ==
    /\ sources = list
    /\ sourceId = NotChosen

\* ------------------------------------- the Chat of the single-meeting build
\* The transcripts of the recordings made one after the other.
SingleTranscripts == {"", "first transcript", "second transcript"}

\* The component after its first render and effects: no transcript, no
\* message, no request.
InitSingle ==
    single = [transcript |-> "", messages |-> <<>>, isLoading |-> FALSE,
              error |-> "", turn |-> 0]

\* ------------------------------------------------------------------- state

NoResult == [text |-> <<>>, error |-> "none"]

\* The engine process has not ended.
NoExit == [code |-> "none", written |-> FALSE]

InitRecording ==
    /\ recordingState = [isRecording |-> FALSE, isTranscribing |-> FALSE,
                         recordingDuration |-> 0]
    /\ transcript = ""
    /\ error = ""
    /\ progress = "null"
    /\ recordingMode = "system"
    /\ mediaRecorderRef = NoRef
    /\ audioChunksRef = <<>>
    /\ streamRef = NullStream
    /\ durationIntervalRef = NoRef
    /\ audioContextRef = NoRef
    /\ mounted = TRUE
    /\ calls = [i \in CallIds |-> "idle"]
    /\ nextCall = 1
    /\ tracks = {}
    /\ mixers = {}
    /\ recorders = [i \in CallIds |-> "inactive"]
    /\ timers = {}
    /\ proc = [i \in CallIds |-> "none"]
    /\ notified = [i \in CallIds |-> <<>>]
    /\ decodeContexts = {}
    /\ lastCall = "none"
    /\ stopRun = 0
    /\ hVariant = "spawn"
    /\ hpc = "idle"
    /\ hEvents = <<>>
    /\ hResult = NoResult
    /\ outputText = <<>>
    /\ errorText = FALSE
    /\ hFiles = {}
    /\ hExit = NoExit

Init ==
    /\ InitRecording
    /\ InitStore(<<>>, NoChats)
    /\ InitWav(NoBuffer)
    /\ InitMix(Silence)
    /\ InitSources(<<>>)
    /\ InitSingle

\* The application starts with some recordings on disk and some stored chats.
InitChat ==
    /\ InitRecording
    /\ \E d \in InitialDisks, chats \in InitialChats : InitStore(d, chats)
    /\ InitWav(NoBuffer)
    /\ InitMix(Silence)
    /\ InitSources(<<>>)
    /\ InitSingle

\* A state setter called after the component was unmounted has no effect.
St(old, new) == IF mounted THEN new ELSE old

\* A step that is not a user operation.
Quiet == lastCall' = "none" /\ stopRun' = 0 /\ UNCHANGED <<hVars, appVars, fnVars>>

\* A step that is not a user operation and does not notify the parent.
Internal == Quiet /\ UNCHANGED <<notified, decodeContexts>>

\* The tracks of a stream are stopped (getTracks().forEach(track => track.stop())).
StopTracks(trk, s) == trk \ {s}

\* An AudioContext is closed.
CloseMixer(mx, c) == mx \ {c}

\* ------------------------------------------------------ startRecording
\* Mutant: the button is rendered, its disabled attribute is dropped.
StartButtonNeverDisabled ==
    ~recordingState.isRecording

\* The Start button is rendered when not recording and disabled while
\* transcribing.
StartButtonEnabled ==
    /\ ~recordingState.isRecording
    /\ ~recordingState.isTranscribing

\* startRecording up to its first await.
startRecording(i) ==
    /\ error' = ""
    /\ transcript' = ""
    /\ progress' = "null"
    /\ calls' = [calls EXCEPT ![i] =
                    IF recordingMode = "system" THEN "sources" ELSE "mic"]
    /\ nextCall' = i + 1
    /\ UNCHANGED <<recordingState, recordingMode, mediaRecorderRef,
                   audioChunksRef, streamRef, durationIntervalRef,
                   audioContextRef, mounted, tracks, mixers, recorders,
                   timers, proc>>

\* The user clicks where the Start button is.
ClickStart ==
    /\ mounted
    /\ StartButtonEnabled => nextCall <= MaxCalls
    /\ lastCall' = "start"
    /\ stopRun' = 0
    /\ UNCHANGED <<hVars, appVars, fnVars, notified, decodeContexts>>
    /\ IF StartButtonEnabled
       THEN startRecording(nextCall)
       ELSE UNCHANGED ctlVars

\* catch (systemErr): the warning is set and the microphone is requested.
Fallback(i) ==
    /\ error' = St(error, FallbackWarning)
    /\ calls' = [calls EXCEPT ![i] = "fallbackMic"]

\* getAudioSources resolves with a non-empty list.
SourcesOk(i) ==
    /\ calls[i] = "sources"
    /\ calls' = [calls EXCEPT ![i] = "systemStream"]
    /\ Internal
    /\ UNCHANGED <<recordingState, transcript, error, progress, recordingMode,
                   mediaRecorderRef, audioChunksRef, streamRef,
                   durationIntervalRef, audioContextRef, mounted, nextCall,
                   tracks, mixers, recorders, timers, proc>>

\* getAudioSources rejects or resolves with no source.
SourcesFail(i) ==
    /\ calls[i] = "sources"
    /\ Fallback(i)
    /\ Internal
    /\ UNCHANGED <<recordingState, transcript, progress, recordingMode,
                   mediaRecorderRef, audioChunksRef, streamRef,
                   durationIntervalRef, audioContextRef, mounted, nextCall,
                   tracks, mixers, recorders, timers, proc>>

\* The desktop capture resolves; its video tracks are stopped at once.
SystemStreamOk(i) ==
    /\ calls[i] = "systemStream"
    /\ tracks' = tracks \cup {<<i, "systemStream">>}
    /\ calls' = [calls EXCEPT ![i] = "micStream"]
    /\ Internal
    /\ UNCHANGED <<recordingState, transcript, error, progress, recordingMode,
                   mediaRecorderRef, audioChunksRef, streamRef,
                   durationIntervalRef, audioContextRef, mounted, nextCall,
                   mixers, recorders, timers, proc>>

SystemStreamFail(i) ==
    /\ calls[i] = "systemStream"
    /\ Fallback(i)
    /\ Internal
    /\ UNCHANGED <<recordingState, transcript, progress, recordingMode,
                   mediaRecorderRef, audioChunksRef, streamRef,
                   durationIntervalRef, audioContextRef, mounted, nextCall,
                   tracks, mixers, recorders, timers, proc>>

\* streamRef.current = stream ... setInterval: the rest of startRecording
\* once the stream is there.  recOk: new MediaRecorder and start() succeed;
\* otherwise the outer catch sets the error.
BeginCapture(i, kind, recOk, trk) ==
    /\ streamRef' = <<i, kind>>
    /\ audioChunksRef' = <<>>
    /\ tracks' = trk
    /\ IF recOk
       THEN /\ recorders' = [recorders EXCEPT ![i] = "recording"]
            /\ mediaRecorderRef' = i
            /\ recordingState' = St(recordingState,
                   [recordingState EXCEPT !.isRecording = TRUE,
                                          !.recordingDuration = 0])
            /\ timers' = timers \cup {i}
            /\ durationIntervalRef' = i
            /\ calls' = [calls EXCEPT ![i] = "returned"]
            /\ error' = error
       ELSE /\ error' = St(error, RecorderError)
            /\ calls' = [calls EXCEPT ![i] = "returned"]
            /\ UNCHANGED <<recorders, mediaRecorderRef, recordingState,
                           timers, durationIntervalRef>>

\* System mode: the microphone resolves, the mixer graph is built.  mixOk:
\* the graph is wired without an exception; otherwise the inner catch runs.
MicStreamOk(i) ==
    /\ calls[i] = "micStream"
    /\ Internal
    /\ audioContextRef' = i
    /\ mixers' = mixers \cup {i}
    /\ \E mixOk \in BOOLEAN, recOk \in BOOLEAN :
         IF mixOk
         THEN /\ BeginCapture(i, "destination", recOk,
                     tracks \cup {<<i, "micStream">>, <<i, "destination">>})
              /\ UNCHANGED <<transcript, progress, recordingMode, mounted,
                             nextCall, proc>>
         ELSE /\ recOk
              /\ Fallback(i)
              /\ tracks' = tracks \cup {<<i, "micStream">>}
              /\ UNCHANGED <<recordingState, transcript, progress,
                             recordingMode, mediaRecorderRef, audioChunksRef,
                             streamRef, durationIntervalRef, mounted, nextCall,
                             recorders, timers, proc>>

MicStreamFail(i) ==
    /\ calls[i] = "micStream"
    /\ Fallback(i)
    /\ Internal
    /\ UNCHANGED <<recordingState, transcript, progress, recordingMode,
                   mediaRecorderRef, audioChunksRef, streamRef,
                   durationIntervalRef, audioContextRef, mounted, nextCall,
                   tracks, mixers, recorders, timers, proc>>

\* Microphone mode: startMicrophoneRecording resolves.
MicOk(i) ==
    /\ calls[i] = "mic"
    /\ Internal
    /\ \E recOk \in BOOLEAN :
         BeginCapture(i, "microphone", recOk,
                      tracks \cup {<<i, "microphone">>})
    /\ UNCHANGED <<transcript, progress, recordingMode, audioContextRef,
                   mounted, nextCall, mixers, proc>>

\* Microphone mode: startMicrophoneRecording rejects; the same catch runs.
MicFail(i) ==
    /\ calls[i] = "mic"
    /\ Fallback(i)
    /\ Internal
    /\ UNCHANGED <<recordingState, transcript, progress, recordingMode,
                   mediaRecorderRef, audioChunksRef, streamRef,
                   durationIntervalRef, audioContextRef, mounted, nextCall,
                   tracks, mixers, recorders, timers, proc>>

\* Mutant: the fallback leaves the mode at system.
FallbackModeSystem == "system"

\* The mode the fallback switches to.
FallbackMode == "microphone"

\* The microphone of the fallback resolves.
FallbackMicOk(i) ==
    /\ calls[i] = "fallbackMic"
    /\ Internal
    /\ recordingMode' = St(recordingMode, FallbackMode)
    /\ \E recOk \in BOOLEAN :
         BeginCapture(i, "microphone", recOk,
                      tracks \cup {<<i, "microphone">>})
    /\ UNCHANGED <<transcript, progress, audioContextRef, mounted, nextCall,
                   mixers, proc>>

\* The microphone of the fallback rejects: the outer catch.
FallbackMicFail(i) ==
    /\ calls[i] = "fallbackMic"
    /\ Internal
    /\ error' = St(error, AcquireError)
    /\ calls' = [calls EXCEPT ![i] = "returned"]
    /\ UNCHANGED <<recordingState, transcript, progress, recordingMode,
                   mediaRecorderRef, audioChunksRef, streamRef,
                   durationIntervalRef, audioContextRef, mounted, nextCall,
                   tracks, mixers, recorders, timers, proc>>

\* The interval callback of timer t.
Tick(t) ==
    /\ t \in timers
    /\ mounted
    /\ recordingState.recordingDuration < MaxDuration
    /\ recordingState' = [recordingState EXCEPT !.recordingDuration = @ + 1]
    /\ Internal
    /\ UNCHANGED <<transcript, error, progress, recordingMode,
                   mediaRecorderRef, audioChunksRef, streamRef,
                   durationIntervalRef, audioContextRef, mounted, calls,
                   nextCall, tracks, mixers, recorders, timers,
                   proc>>

\* The mode selector; the radio buttons are disabled while recording or
\* transcribing, and onChange fires for the button that is not checked.
SelectMode(m) ==
    /\ mounted
    /\ ~recordingState.isRecording
    /\ ~recordingState.isTranscribing
    /\ m # recordingMode
    /\ recordingMode' = m
    /\ lastCall' = "select"
    /\ stopRun' = 0
    /\ UNCHANGED <<hVars, appVars, fnVars, notified, decodeContexts>>
    /\ UNCHANGED <<recordingState, transcript, error, progress,
                   mediaRecorderRef, audioChunksRef, streamRef,
                   durationIntervalRef, audioContextRef, mounted, calls,
                   nextCall, tracks, mixers, recorders, timers,
                   proc>>

\* ------------------------------------------------------- stopRecording
\* The guard of stopRecording.
StopAccepted ==
    /\ mediaRecorderRef # NoRef
    /\ recordingState.isRecording

\* The tracks stopRecording stops: those of streamRef.current.
StopReleasedTracks == StopTracks(tracks, streamRef)

stopRecording ==
    IF StopAccepted
    THEN /\ recorders' = [recorders EXCEPT ![mediaRecorderRef] =
                             IF @ = "recording" THEN "stopping" ELSE @]
         /\ tracks' = StopReleasedTracks
         /\ mixers' = CloseMixer(mixers, audioContextRef)
         /\ audioContextRef' = NoRef
         /\ timers' = timers \ {durationIntervalRef}
         /\ durationIntervalRef' = NoRef
         /\ recordingState' = [recordingState EXCEPT !.isRecording = FALSE]
         /\ UNCHANGED <<transcript, error, progress, recordingMode,
                        mediaRecorderRef, audioChunksRef, streamRef, mounted,
                        calls, nextCall, proc>>
    ELSE UNCHANGED ctlVars

\* The user clicks where the Stop button is.
ClickStop ==
    /\ mounted
    /\ lastCall' = "stop"
    /\ stopRun' = IF StopAccepted THEN 1 ELSE IF stopRun >= 1 THEN 2 ELSE 0
    /\ UNCHANGED <<hVars, appVars, fnVars, notified, decodeContexts>>
    /\ stopRecording

\* The cleanup of the mount effect.
Unmount ==
    /\ mounted
    /\ mounted' = FALSE
    /\ tracks' = StopTracks(tracks, streamRef)
    /\ mixers' = CloseMixer(mixers, audioContextRef)
    /\ timers' = timers \ {durationIntervalRef}
    /\ lastCall' = "unmount"
    /\ stopRun' = 0
    /\ UNCHANGED <<hVars, appVars, fnVars, notified, decodeContexts>>
    /\ UNCHANGED <<recordingState, transcript, error, progress, recordingMode,
                   mediaRecorderRef, audioChunksRef, streamRef,
                   durationIntervalRef, audioContextRef, calls, nextCall,
                   recorders, proc>>


\* ------------------------------------------------------- the recorder
\* What processRecording and the recorder's events leave alone.
captureVars == <<recordingMode, mediaRecorderRef, streamRef,
                 durationIntervalRef, audioContextRef, mounted, calls,
                 nextCall, tracks, mixers, timers>>

\* ondataavailable: only a chunk of size > 0 is pushed.
PushChunk(chunks, r, size) ==
    IF size > 0 THEN Append(chunks, r) ELSE chunks

\* All tracks of the stream a recorder records have ended without stop():
\* the recorder stops by itself.
RecorderTracksEnded(r) ==
    /\ recorders[r] = "recording"
    /\ <<r, "destination">> \notin tracks
    /\ <<r, "microphone">> \notin tracks
    /\ recorders' = [recorders EXCEPT ![r] = "stopping"]
    /\ Internal
    /\ UNCHANGED <<recordingState, transcript, error, progress,
                   audioChunksRef, proc, captureVars>>

\* ----------------------------------------------------- processRecording
ProcPositions == {"buffer", "decode", "closing", "save", "transcribe"}

\* The blob processRecording builds from the chunk buffer.
MakeBlob(chunks) == chunks

\* Mutant: after a failure the cycle goes on to the transcription.
ProcessFailedRunsOn(r, msg) ==
    /\ error' = St(error, msg)
    /\ recordingState' = recordingState
    /\ proc' = [proc EXCEPT ![r] = "transcribe"]

\* The catch block of processRecording.
ProcessFailed(r, msg) ==
    /\ error' = St(error, msg)
    /\ recordingState' = St(recordingState,
           [recordingState EXCEPT !.isTranscribing = FALSE])
    /\ proc' = [proc EXCEPT ![r] = "failed"]

\* The task a stopped recorder queues: dataavailable with the recorded data
\* (start() was given no timeslice, so this is the recorder's only chunk),
\* then onstop, which runs processRecording up to its first await.
RecorderStopped(r, size) ==
    /\ recorders[r] = "stopping"
    /\ recorders' = [recorders EXCEPT ![r] = "inactive"]
    /\ audioChunksRef' = PushChunk(audioChunksRef, r, size)
    /\ transcript' = St(transcript, "")
    /\ progress' = St(progress, "null")
    /\ Internal
    /\ IF MakeBlob(audioChunksRef') = <<>>
       THEN ProcessFailed(r, NoAudioMessage)
       ELSE /\ error' = St(error, "")
            /\ recordingState' = St(recordingState,
                   [recordingState EXCEPT !.isTranscribing = TRUE])
            /\ proc' = [proc EXCEPT ![r] = "buffer"]
    /\ UNCHANGED captureVars

\* convertToWav: arrayBuffer() resolves and the decoding context is created.
BufferRead(r) ==
    /\ proc[r] = "buffer"
    /\ proc' = [proc EXCEPT ![r] = "decode"]
    /\ decodeContexts' = decodeContexts \cup {r}
    /\ Quiet
    /\ UNCHANGED notified
    /\ UNCHANGED <<recordingState, transcript, error, progress,
                   audioChunksRef, recorders, captureVars>>

\* decodeAudioData resolves; the file is written into the buffer and
\* close() of the decoding context is awaited.
DecodeOk(r) ==
    /\ proc[r] = "decode"
    /\ proc' = [proc EXCEPT ![r] = "closing"]
    /\ Internal
    /\ UNCHANGED <<recordingState, transcript, error, progress,
                   audioChunksRef, recorders, captureVars>>

\* decodeAudioData rejects.
DecodeFail(r) ==
    /\ proc[r] = "decode"
    /\ ProcessFailed(r, DecodeError)
    /\ Internal
    /\ UNCHANGED <<transcript, progress, audioChunksRef, recorders,
                   captureVars>>

\* close() resolves, convertToWav returns and saveAudioFile is called.
ContextClosed(r) ==
    /\ proc[r] = "closing"
    /\ proc' = [proc EXCEPT ![r] = "save"]
    /\ decodeContexts' = CloseMixer(decodeContexts, r)
    /\ Quiet
    /\ UNCHANGED notified
    /\ UNCHANGED <<recordingState, transcript, error, progress,
                   audioChunksRef, recorders, captureVars>>

\* saveAudioFile resolves with a path and transcribeAudio is called.
SaveOk(r) ==
    /\ proc[r] = "save"
    /\ proc' = [proc EXCEPT ![r] = "transcribe"]
    /\ Internal
    /\ UNCHANGED <<recordingState, transcript, error, progress,
                   audioChunksRef, recorders, captureVars>>

\* saveAudioFile rejects.
SaveFail(r) ==
    /\ proc[r] = "save"
    /\ ProcessFailed(r, SaveError)
    /\ Internal
    /\ UNCHANGED <<transcript, progress, audioChunksRef, recorders,
                   captureVars>>

\* Mutant: an error status is taken for the failure of the cycle.
ProgressEventEndsCycle(p) ==
    /\ mounted
    /\ \E r \in CallIds : proc[r] = "transcribe"
    /\ progress' = p
    /\ Internal
    /\ error' = IF p = "error" THEN EngineError ELSE error
    /\ UNCHANGED <<recordingState, transcript, audioChunksRef,
                   recorders, proc, captureVars>>

\* The progress listener registered by the mount effect; the handler sends
\* progress only while a transcribe-audio call runs.
ProgressEvent(p) ==
    /\ mounted
    /\ \E r \in CallIds : proc[r] = "transcribe"
    /\ progress' = p
    /\ Internal
    /\ UNCHANGED <<recordingState, transcript, error, audioChunksRef,
                   recorders, proc, captureVars>>

\* Mutant: the parent is not notified.
NotifyNever(n, r, text) == n

\* if (onTranscriptUpdate) onTranscriptUpdate(result.text)
Notify(n, r, text) == [n EXCEPT ![r] = Append(@, text)]

\* transcribeAudio resolves without an error: the transcript is stored and
\* the parent is notified.
TranscribeOk(r, text) ==
    /\ proc[r] = "transcribe"
    /\ transcript' = St(transcript, text)
    /\ recordingState' = St(recordingState,
           [recordingState EXCEPT !.isTranscribing = FALSE])
    /\ proc' = [proc EXCEPT ![r] = "success"]
    /\ notified' = Notify(notified, r, text)
    /\ Quiet
    /\ UNCHANGED decodeContexts
    /\ UNCHANGED <<error, progress, audioChunksRef, recorders, captureVars>>

\* transcribeAudio resolves with result.error set.
TranscribeError(r) ==
    /\ proc[r] = "transcribe"
    /\ error' = St(error, EngineError)
    /\ transcript' = St(transcript, FailedTranscript)
    /\ recordingState' = St(recordingState,
           [recordingState EXCEPT !.isTranscribing = FALSE])
    /\ proc' = [proc EXCEPT ![r] = "failed"]
    /\ Internal
    /\ UNCHANGED <<progress, audioChunksRef, recorders, captureVars>>

\* The invoke of transcribe-audio rejects.
TranscribeRejected(r) ==
    /\ proc[r] = "transcribe"
    /\ ProcessFailed(r, InvokeError)
    /\ Internal
    /\ UNCHANGED <<transcript, progress, audioChunksRef, recorders,
                   captureVars>>

\* ------------------------------------------- transcribe-audio handler
\* The two revisions of the handler: "spawn" runs the engine executable,
\* "whisperNode" calls the whisper-node library.
Variants == {"spawn", "whisperNode"}
MaxOutput == 2      \* data events of the engine in one call

\* Texts are sequences of characters; " " is white space.
RawTexts == {<<>>, <<" ">>, <<"a">>, <<" ", "a", " ">>}

RECURSIVE TrimStart(_)
TrimStart(t) == IF t # <<>> /\ Head(t) = " " THEN TrimStart(Tail(t)) ELSE t

RECURSIVE TrimEnd(_)
TrimEnd(t) ==
    IF t # <<>> /\ t[Len(t)] = " " THEN TrimEnd(SubSeq(t, 1, Len(t) - 1)) ELSE t

\* String.prototype.trim
Trim(t) == TrimEnd(TrimStart(t))

NotFoundMessage == "Faster-Whisper-XXL executable not found"
ExitMessage == "Whisper process exited with code"
ReadMessage == "readFileSync failed"
LibraryMessage == "whisper-node failed"

ctlAll == <<ctlVars, lastCall, stopRun, appVars, fnVars>>

\* event.sender.send("transcription-progress", {status})
Send(events, status) == Append(events, status)

\* The catch block of the handler.
HandlerFailed(events, msg) ==
    /\ hEvents' = Send(events, "error")
    /\ hResult' = [text |-> <<>>, error |-> msg]
    /\ hpc' = "resolved"

\* The handler is invoked with the path of a saved audio file.  Spawn
\* revision: exeExists is fs.existsSync(whisperExePath).  Library revision:
\* loaded is whether require("whisper-node") returns.
TranscribeInvoked(v, exeExists) ==
    /\ hpc \in {"idle", "resolved", "hung"}
    /\ hVariant' = v
    /\ hFiles' = {"audio"}
    /\ outputText' = <<>>
    /\ errorText' = FALSE
    /\ hExit' = NoExit
    /\ IF exeExists
       THEN /\ hEvents' = Send(<<>>, "downloading")
            /\ hResult' = NoResult
            /\ hpc' = "running"
       ELSE HandlerFailed(<<>>, IF v = "spawn" THEN NotFoundMessage
                                ELSE LibraryMessage)
    /\ UNCHANGED ctlAll

\* spawn() returned a child whose process could not be started (EACCES, or
\* ENOENT although the executable was seen by existsSync): the child emits
\* "error" on the next tick.  The handler registers no "error" listener, so
\* the emit throws outside the handler's try block and "close" is never
\* emitted: the promise of the exit code never settles, and neither the
\* catch block nor the completion code runs.
SpawnFailed ==
    /\ hpc = "running"
    /\ hVariant = "spawn"
    /\ hEvents = <<"downloading">>
    /\ outputText = <<>>
    /\ ~errorText
    /\ hpc' = "hung"
    /\ UNCHANGED <<hVariant, hEvents, hResult, outputText, errorText, hFiles,
                   hExit, ctlAll>>

\* stdout data; a progress event is sent when the output holds "%" or
\* "Processing".
StdoutData(output, isProgress) ==
    /\ hpc = "running"
    /\ hVariant = "spawn"
    /\ Len(hEvents) <= MaxOutput
    /\ Len(outputText) + Len(output) <= 3
    /\ hEvents' = IF isProgress THEN Send(hEvents, "transcribing") ELSE hEvents
    /\ outputText' = outputText \o output
    /\ UNCHANGED <<hVariant, hpc, hResult, errorText, hFiles, hExit, ctlAll>>

\* stderr data: always forwarded as progress.
StderrData ==
    /\ hpc = "running"
    /\ hVariant = "spawn"
    /\ Len(hEvents) <= MaxOutput
    /\ hEvents' = Send(hEvents, "transcribing")
    /\ errorText' = TRUE
    /\ UNCHANGED <<hVariant, hpc, hResult, outputText, hFiles, hExit, ctlAll>>

\* The code of the "close" event: null when the process was killed by a
\* signal.
CloseCode(killed, code) == IF killed THEN "null" ELSE IF code = 0 THEN "0" ELSE "1"

\* resolve(code || 0): the code is null when the process was killed by a
\* signal, and null counts as 0.
ExitCode(killed, code) == IF killed THEN 0 ELSE code

\* The engine process closes.  written: the engine wrote the transcript
\* file, with content fileText; readOk, unlinkOk: readFileSync and
\* unlinkSync of the audio file succeed.
ProcessClosed(killed, code, written, fileText, readOk, unlinkOk) ==
    /\ hpc = "running"
    /\ hVariant = "spawn"
    /\ IF ExitCode(killed, code) # 0
       THEN /\ HandlerFailed(hEvents, ExitMessage)
            /\ hFiles' = hFiles \cup (IF written THEN {"transcript"} ELSE {})
       ELSE IF written /\ ~readOk
       THEN /\ HandlerFailed(hEvents, ReadMessage)
            /\ hFiles' = hFiles \cup {"transcript"}
       ELSE /\ hEvents' = Send(hEvents, "complete")
            /\ hResult' = [text |-> Trim(IF written THEN fileText ELSE outputText),
                           error |-> "none"]
            /\ hFiles' = IF unlinkOk THEN {} ELSE {"audio"}
            /\ hpc' = "resolved"
    /\ hExit' = [code |-> CloseCode(killed, code), written |-> written]
    /\ UNCHANGED <<hVariant, outputText, errorText, ctlAll>>

\* Library revision: whisper() resolves with the transcript.
WhisperResolved(text, unlinkOk) ==
    /\ hpc = "running"
    /\ hVariant = "whisperNode"
    /\ hEvents' = Send(hEvents, "complete")
    /\ hResult' = [text |-> text, error |-> "none"]
    /\ hFiles' = IF unlinkOk THEN {} ELSE {"audio"}
    /\ hpc' = "resolved"
    /\ UNCHANGED <<hVariant, outputText, errorText, hExit, ctlAll>>

\* Library revision: whisper() rejects.
WhisperRejected ==
    /\ hpc = "running"
    /\ hVariant = "whisperNode"
    /\ HandlerFailed(hEvents, LibraryMessage)
    /\ UNCHANGED <<hVariant, outputText, errorText, hFiles, hExit, ctlAll>>

NextTranscribe ==
    \/ \E v \in Variants, exeExists \in BOOLEAN : TranscribeInvoked(v, exeExists)
    \/ \E output \in RawTexts \ {<<>>}, isProgress \in BOOLEAN :
           StdoutData(output, isProgress)
    \/ StderrData
    \/ SpawnFailed
    \/ \E killed \in BOOLEAN, code \in {0, 1}, written \in BOOLEAN,
          fileText \in RawTexts, readOk \in BOOLEAN, unlinkOk \in BOOLEAN :
           ProcessClosed(killed, code, written, fileText, readOk, unlinkOk)
    \/ \E text \in RawTexts, unlinkOk \in BOOLEAN : WhisperResolved(text, unlinkOk)
    \/ WhisperRejected

SpecTranscribe == Init /\ [][NextTranscribe]_vars

\* chatHistory[recording.id] || []
HistoryOf(chats, id) == IF id \in DOMAIN chats THEN chats[id] ELSE <<>>

Ids(ms) == {ms[k].id : k \in 1..Len(ms)}

\* meetings.find((m) => m.id === id); IsFound tells whether there is one.
IsFound(ms, id) == id \in Ids(ms)
Find(ms, id) == ms[CHOOSE k \in 1..Len(ms) : ms[k].id = id /\ \A j \in 1..(k - 1) : ms[j].id # id]

\* Mutant: the count is not recomputed with the messages.
CountStale(msgs) == 0

\* messageCount: messages.length
CountOf(msgs) == Len(msgs)

\* Mutant: only the chat of the first meeting is written.
PersistFirstOnly(ms) ==
    [id \in {i \in Ids(ms) : i = ms[1].id /\ Find(ms, i).messages # <<>>}
        |-> Find(ms, id).messages]

\* The persist effect: the chats of the meetings that have a message.
Persist(ms) ==
    [id \in {i \in Ids(ms) : Find(ms, i).messages # <<>>} |-> Find(ms, id).messages]

\* recordings.map(...) of loadRecordings
MeetingsData(recordings, chats) ==
    [k \in 1..Len(recordings) |->
        [id |-> recordings[k], transcript |-> "",
         messages |-> HistoryOf(chats, recordings[k]),
         messageCount |-> CountOf(HistoryOf(chats, recordings[k]))]]

\* The props App hands to Chat.
CurrentTranscript(ms, cur) == IF IsFound(ms, cur) THEN Find(ms, cur).transcript ELSE ""
CurrentMessages(ms, cur) == IF IsFound(ms, cur) THEN Find(ms, cur).messages ELSE <<>>
ChatDisabled == CurrentTranscript(meetings, currentMeetingId) = ""

\* handleMessagesUpdate of the render in which cur was the current meeting.
handleMessagesUpdate(ms, cur, msgs) ==
    IF cur # NoMeeting
    THEN [k \in 1..Len(ms) |->
            IF ms[k].id = cur
            THEN [ms[k] EXCEPT !.messages = msgs, !.messageCount = CountOf(msgs)]
            ELSE ms[k]]
    ELSE ms

\* loadTranscript(id) is called.
StartFetch(id, requested) ==
    /\ fetching' = [fetching EXCEPT ![id] = @ + 1]
    /\ fetched' = requested \cup {id}

\* What the actions of App and Chat leave alone.
appRest == <<ctlVars, lastCall, stopRun, hVars, previousChats, fnVars>>

\* App mounts: the first effect calls loadRecordings, which awaits
\* getRecordings; the persist effect then runs with no meetings.
AppMount ==
    /\ ~appMounted
    /\ appMounted' = TRUE
    /\ loads' = loads + 1
    /\ storedChats' = Persist(meetings)
    /\ UNCHANGED <<meetings, currentMeetingId, disk, fetching, fetched,
                   chatMessages, isLoading, chatError, flight, turn, turnMeeting>>
    /\ UNCHANGED appRest

\* A recording is saved under a new id.
RecordingSaved ==
    /\ appMounted
    /\ Len(disk) < MaxRecordings
    /\ disk' = <<RecordingIds[Len(disk) + 1]>> \o disk
    /\ UNCHANGED <<appMounted, meetings, currentMeetingId, storedChats, loads,
                   fetching, fetched, chatMessages, isLoading, chatError,
                   flight, turn, turnMeeting>>
    /\ UNCHANGED appRest

\* The files of the recordings are removed outside the application.
RecordingsRemoved ==
    /\ appMounted
    /\ Listing(disk) # <<>>
    /\ disk' = [k \in 1..Len(disk) |-> Gone]
    /\ UNCHANGED <<appMounted, meetings, currentMeetingId, storedChats, loads,
                   fetching, fetched, chatMessages, isLoading, chatError,
                   flight, turn, turnMeeting>>
    /\ UNCHANGED appRest

\* handleTranscriptUpdate: AudioCapture reports a transcript.
handleTranscriptUpdate ==
    /\ appMounted
    /\ loads < MaxLoads
    /\ loads' = loads + 1
    /\ UNCHANGED <<appMounted, meetings, currentMeetingId, storedChats, disk,
                   fetching, fetched, chatMessages, isLoading, chatError,
                   flight, turn, turnMeeting>>
    /\ UNCHANGED appRest

\* getRecordings resolves in a loadRecordings call: the store is rebuilt from
\* the list and the stored chats, the first meeting becomes current and its
\* transcript is requested.  Chat's messages prop is a new array, so its
\* effect copies it into the Chat state.
GetRecordingsOk ==
    /\ loads > 0
    /\ Listing(disk) # <<>> => fetching[Listing(disk)[1]] < MaxFetches
    /\ loads' = loads - 1
    /\ meetings' = MeetingsData(Listing(disk), storedChats)
    /\ storedChats' = Persist(meetings')
    /\ IF Listing(disk) # <<>>
       THEN /\ currentMeetingId' = Listing(disk)[1]
            /\ StartFetch(Listing(disk)[1], {})
       ELSE UNCHANGED <<currentMeetingId, fetching>> /\ fetched' = {}
    /\ chatMessages' = CurrentMessages(meetings', currentMeetingId')
    /\ UNCHANGED <<appMounted, disk, isLoading, chatError, flight, turn,
                   turnMeeting>>
    /\ UNCHANGED appRest

\* getRecordings rejects: the catch block only logs.
GetRecordingsFail ==
    /\ loads > 0
    /\ loads' = loads - 1
    /\ UNCHANGED <<appMounted, meetings, currentMeetingId, storedChats, disk,
                   fetching, fetched, chatMessages, isLoading, chatError,
                   flight, turn, turnMeeting>>
    /\ UNCHANGED appRest

\* handleSelectMeeting: a meeting of the sidebar is clicked.
handleSelectMeeting(id) ==
    /\ appMounted
    /\ IsFound(meetings, id)
    /\ currentMeetingId' = id
    /\ IF Find(meetings, id).transcript = ""
       THEN /\ fetching[id] < MaxFetches
            /\ StartFetch(id, fetched)
       ELSE UNCHANGED <<fetching, fetched>>
    /\ chatMessages' = IF id # currentMeetingId
                       THEN CurrentMessages(meetings, id)
                       ELSE chatMessages
    /\ UNCHANGED <<appMounted, meetings, storedChats, disk, loads, isLoading,
                   chatError, flight, turn, turnMeeting>>
    /\ UNCHANGED appRest

\* getRecordingTranscript resolves in a loadTranscript call.
TranscriptLoaded(id, text) ==
    /\ fetching[id] > 0
    /\ fetching' = [fetching EXCEPT ![id] = @ - 1]
    /\ UNCHANGED fetched
    /\ meetings' = [k \in 1..Len(meetings) |->
                      IF meetings[k].id = id
                      THEN [meetings[k] EXCEPT !.transcript = text]
                      ELSE meetings[k]]
    /\ storedChats' = Persist(meetings')
    /\ UNCHANGED <<appMounted, currentMeetingId, disk, loads,
                   chatMessages, isLoading, chatError, flight, turn, turnMeeting>>
    /\ UNCHANGED appRest

\* getRecordingTranscript rejects: the catch block only logs.
TranscriptFailed(id) ==
    /\ fetching[id] > 0
    /\ fetching' = [fetching EXCEPT ![id] = @ - 1]
    /\ UNCHANGED fetched
    /\ UNCHANGED <<appMounted, meetings, currentMeetingId, storedChats, disk,
                   loads, chatMessages, isLoading, chatError,
                   flight, turn, turnMeeting>>
    /\ UNCHANGED appRest

\* ------------------------------------------------------ Chat: sendMessage
\* The body of a response with status ok: a completion text, no choices, or
\* an empty completion text.
Bodies == {"text", "noChoices", "emptyText"}

\* data.choices?.[0]?.message?.content || "No response received."
Completion(body, k) == IF body = "text" THEN Answer(k) ELSE Placeholder

\* Mutant: the request leaves out the prior messages.
ApiMessagesWithoutHistory(t, msgs, userMessage) ==
    <<[role |-> "system", content |-> SYSTEM_PROMPT],
      [role |-> "system", content |-> Context(t)],
      [role |-> "user", content |-> userMessage.content]>>

\* const apiMessages = [...]
ApiMessages(t, msgs, userMessage) ==
    <<[role |-> "system", content |-> SYSTEM_PROMPT],
      [role |-> "system", content |-> Context(t)]>>
    \o msgs
    \o <<[role |-> "user", content |-> userMessage.content]>>

\* Mutant: the catch block takes the user message back.
FailedMessagesRolledBack(msgs) == SubSeq(msgs, 1, Len(msgs) - 1)

\* The Chat messages after the catch block: it sets only the error.
FailedMessages(msgs) == msgs

\* Mutant: the placeholder answer is not appended.
FinalMessagesWithoutPlaceholder(updatedMessages, assistantMessage) ==
    IF assistantMessage.content = Placeholder THEN updatedMessages
    ELSE Append(updatedMessages, assistantMessage)

\* const finalMessages = [...updatedMessages, assistantMessage]
FinalMessages(updatedMessages, assistantMessage) ==
    Append(updatedMessages, assistantMessage)

\* Mutant: the guard does not look at isLoading.
GuardIgnoresLoading(blank, loading, disabled) == blank \/ disabled

\* if (!inputValue.trim() || isLoading || disabled) return;
GuardReturns(blank, loading, disabled) == blank \/ loading \/ disabled

\* sendMessage up to its await of fetch.  blank: the input is empty or
\* white space.
sendMessage(blank) ==
    /\ appMounted
    /\ IF GuardReturns(blank, isLoading, ChatDisabled)
       THEN UNCHANGED appVars
       ELSE LET k == turn + 1
                userMessage == UserMessage(k)
                updatedMessages == Append(chatMessages, userMessage)
            IN  /\ turn < MaxTurns
                /\ turn' = k
                /\ turnMeeting' = [turnMeeting EXCEPT ![k] = currentMeetingId]
                /\ chatMessages' = updatedMessages
                /\ meetings' = handleMessagesUpdate(meetings, currentMeetingId,
                                                    updatedMessages)
                /\ storedChats' = Persist(meetings')
                /\ isLoading' = TRUE
                /\ chatError' = ""
                /\ flight' = [meeting |-> currentMeetingId,
                              updated |-> updatedMessages,
                              request |-> ApiMessages(
                                  CurrentTranscript(meetings, currentMeetingId),
                                  chatMessages, userMessage)]
                /\ UNCHANGED <<appMounted, currentMeetingId, disk, loads,
                               fetching, fetched>>
    /\ UNCHANGED appRest

\* The response is ok and its JSON is read: the answer is appended to the
\* messages of the call and handed to the handleMessagesUpdate the call
\* started with.
ResponseOk(body) ==
    /\ flight # NoFlight
    /\ LET assistantMessage == [role |-> "assistant",
                                content |-> Completion(body, turn)]
           finalMessages == FinalMessages(flight.updated, assistantMessage)
       IN  /\ chatMessages' = finalMessages
           /\ meetings' = handleMessagesUpdate(meetings, flight.meeting,
                                               finalMessages)
    /\ storedChats' = Persist(meetings')
    /\ isLoading' = FALSE
    /\ flight' = NoFlight
    /\ UNCHANGED <<appMounted, currentMeetingId, disk, loads, fetching, fetched,
                   chatError, turn, turnMeeting>>
    /\ UNCHANGED appRest

\* The response is not ok, fetch rejects, or response.json() rejects.
ResponseFail(msg) ==
    /\ flight # NoFlight
    /\ chatError' = msg
    /\ chatMessages' = FailedMessages(chatMessages)
    /\ isLoading' = FALSE
    /\ flight' = NoFlight
    /\ UNCHANGED <<appMounted, meetings, currentMeetingId, storedChats, disk,
                   loads, fetching, fetched, turn, turnMeeting>>
    /\ UNCHANGED appRest

NextChat ==
    \/ AppMount
    \/ RecordingSaved
    \/ RecordingsRemoved
    \/ handleTranscriptUpdate
    \/ GetRecordingsOk
    \/ GetRecordingsFail
    \/ \E id \in MeetingIds : handleSelectMeeting(id)
    \/ \E id \in MeetingIds, text \in TranscriptTexts : TranscriptLoaded(id, text)
    \/ \E id \in MeetingIds : TranscriptFailed(id)
    \/ \E blank \in BOOLEAN : sendMessage(blank)
    \/ \E body \in Bodies : ResponseOk(body)
    \/ \E msg \in ChatFailures : ResponseFail(msg)

SpecChat == InitChat /\ [][NextChat]_vars

\* ------------------------------------------------------- convertToWav
\* new ArrayBuffer(size): size bytes of 0.
ArrayBuffer(size) == [k \in 1..size |-> 0]

\* DataView.setUint8(offset, value)
SetUint8(view, offset, value) == [view EXCEPT ![offset + 1] = value % 256]

\* Mutant: the littleEndian argument is left out.
SetUint16BigEndian(view, offset, value) ==
    [view EXCEPT ![offset + 1] = (value % 65536) \div 256,
                 ![offset + 2] = (value % 65536) % 256]

\* DataView.setUint16(offset, value, true)
SetUint16(view, offset, value) ==
    [view EXCEPT ![offset + 1] = (value % 65536) % 256,
                 ![offset + 2] = (value % 65536) \div 256]

\* DataView.setUint32(offset, value, true): the four low bytes of the value,
\* which is the value modulo 2^32.
SetUint32(view, offset, value) ==
    [view EXCEPT ![offset + 1] = value % 256,
                 ![offset + 2] = (value \div 256) % 256,
                 ![offset + 3] = (value \div 65536) % 256,
                 ![offset + 4] = (value \div 16777216) % 256]

\* DataView.setInt16(offset, value, true): the value modulo 2^16, in two's
\* complement.
SetInt16(view, offset, value) == SetUint16(view, offset, value % 65536)

\* The char codes of the four tags.
RIFF == <<82, 73, 70, 70>>
WAVE == <<87, 65, 86, 69>>
FMT == <<102, 109, 116, 32>>
DATA == <<100, 97, 116, 97>>

RECURSIVE writeString(_, _, _)
writeString(view, offset, string) ==
    IF string = <<>> THEN view
    ELSE writeString(SetUint8(view, offset, Head(string)), offset + 1,
                     Tail(string))

\* const length = audioBuffer.length * numberOfChannels * 2
DataLength(buf) == buf.length * buf.numberOfChannels * 2

\* The header writes of convertToWav, in their order.
WriteHeader(view, buf) ==
    LET numberOfChannels == buf.numberOfChannels
        sampleRate == buf.sampleRate
        length == DataLength(buf)
        v1 == writeString(view, 0, RIFF)
        v2 == SetUint32(v1, 4, 36 + length)
        v3 == writeString(v2, 8, WAVE)
        v4 == writeString(v3, 12, FMT)
        v5 == SetUint32(v4, 16, 16)
        v6 == SetUint16(v5, 20, 1)
        v7 == SetUint16(v6, 22, numberOfChannels)
        v8 == SetUint32(v7, 24, sampleRate)
        v9 == SetUint32(v8, 28, sampleRate * numberOfChannels * 2)
        v10 == SetUint16(v9, 32, numberOfChannels * 2)
        v11 == SetUint16(v10, 34, 16)
        v12 == writeString(v11, 36, DATA)
    IN  SetUint32(v12, 40, length)

\* Mutant: the sample is scaled as it is.
ClampNone(sample) == sample

\* Math.max(-1, Math.min(1, sample))
Clamp(sample) ==
    LET low == IF sample < SampleUnit THEN sample ELSE SampleUnit
    IN  IF low > -SampleUnit THEN low ELSE -SampleUnit

\* sample < 0 ? sample * 0x8000 : sample * 0x7fff, and the conversion of
\* setInt16 to an integer, which drops the fraction.
Scaled(sample) ==
    IF sample < 0
    THEN -((-sample * 32768) \div SampleUnit)
    ELSE (sample * 32767) \div SampleUnit

\* The two loops over the samples: write k is sample k \div channels of
\* channel k % channels, at offset 44 + 2k.
RECURSIVE WriteSamples(_, _, _)
WriteSamples(view, buf, k) ==
    IF k >= buf.length * buf.numberOfChannels THEN view
    ELSE LET i == k \div buf.numberOfChannels
             channel == k % buf.numberOfChannels
             sample == Clamp(buf.channels[channel + 1][i + 1])
         IN  WriteSamples(SetInt16(view, 44 + 2 * k, Scaled(sample)), buf, k + 1)

convertToWav(buf) ==
    WriteSamples(WriteHeader(ArrayBuffer(44 + DataLength(buf)), buf), buf, 0)

wavRest == <<ctlVars, lastCall, stopRun, hVars, appVars, mixVars, srcVars, single>>

\* decodeAudioData has resolved with audioBuffer: the file is written.
WavWritten ==
    /\ wavBuffer = <<>>
    /\ wavBuffer' = convertToWav(audioBuffer)
    /\ UNCHANGED <<audioBuffer, wavRest>>

NextWav == WavWritten

InitConvert ==
    /\ InitRecording
    /\ InitStore(<<>>, NoChats)
    /\ \E buf \in AudioBuffers : InitWav(buf)
    /\ InitMix(Silence)
    /\ InitSources(<<>>)
    /\ InitSingle

SpecWav == InitConvert /\ [][NextWav]_vars

\* -------------------------------------------------- the mixer graph
\* systemGain.gain.value = 1.0; micGain.gain.value = 6.0
SystemGainValue == 1
MicGainValue == 6

\* Mutant: the gain values are left as the nodes were created.
SetGainsNot(gains) == gains

\* The two assignments to gain.value.
SetGains(gains) ==
    [gains EXCEPT !["systemGain"] = SystemGainValue,
                  !["micGain"] = MicGainValue]

\* The four connect() calls: source -> gain -> destination, for each input.
Connect(conn, from, to) == conn \cup {<<from, to>>}

MixerGraph ==
    Connect(Connect(Connect(Connect({},
        "systemSource", "systemGain"),
        "systemGain", "destination"),
        "micSource", "micGain"),
        "micGain", "destination")

\* The signal of a node at instant t: a stream source gives the sample of
\* its stream, a gain node its input times its gain, the destination its
\* input; the input of a node is the sum of the nodes connected to it.
RECURSIVE NodeOutput(_, _, _, _), SumOf(_, _, _, _, _)
NodeOutput(conn, gains, in, n) ==
    [t \in 1..MaxInstants |->
        IF n = "systemSource" THEN in.system[t]
        ELSE IF n = "micSource" THEN in.mic[t]
        ELSE LET input == SumOf(conn, gains, in, {c \in conn : c[2] = n}, t)
             IN  IF n \in GainNodes THEN gains[n] * input ELSE input]

SumOf(conn, gains, in, cs, t) ==
    IF cs = {} THEN 0
    ELSE LET c == CHOOSE x \in cs : TRUE
         IN  NodeOutput(conn, gains, in, c[1])[t]
                + SumOf(conn, gains, in, cs \ {c}, t)

\* The signal of the one track of destination.stream.
MixedSignal == NodeOutput(connections, gainValue, mixInput, "destination")

mixRest == <<ctlVars, lastCall, stopRun, hVars, appVars, wavVars, srcVars, single>>

\* startSystemAudioRecording after both streams are there: the nodes are
\* created, the gains set, the graph wired, and destination.stream returned.
MixerBuilt ==
    /\ mixedTracks = {}
    /\ gainValue' = SetGains(gainValue)
    /\ connections' = MixerGraph
    /\ mixedTracks' = {"destination"}
    /\ UNCHANGED <<mixInput, mixRest>>

NextMix == MixerBuilt

InitMixer ==
    /\ InitRecording
    /\ InitStore(<<>>, NoChats)
    /\ InitWav(NoBuffer)
    /\ \E in \in MixInputs : InitMix(in)
    /\ InitSources(<<>>)
    /\ InitSingle

SpecMix == InitMixer /\ [][NextMix]_vars

\* ------------------------------------------ the choice of the source
\* String.prototype.includes
Includes(name, token) ==
    \E k \in 0..(Len(name) - Len(token)) :
        SubSeq(name, k + 1, k + Len(token)) = token

\* sources.find(...): the first source whose name includes "Screen" or
\* "screen"; 0 when there is none.
FindScreen(list) ==
    LET hits == {k \in 1..Len(list) :
                    \/ Includes(list[k].name, <<"S", "c", "r", "e", "e", "n">>)
                    \/ Includes(list[k].name, <<"s", "c", "r", "e", "e", "n">>)}
    IN  IF hits = {} THEN 0 ELSE CHOOSE k \in hits : \A j \in hits : k <= j

\* screenSource ? screenSource.id : sources[0].id
ChosenId(list) ==
    IF FindScreen(list) # 0 THEN list[FindScreen(list)].id ELSE list[1].id

srcRest == <<ctlVars, lastCall, stopRun, hVars, appVars, wavVars, mixVars, single>>

\* getAudioSources resolves: an empty list throws, otherwise the source is
\* chosen.
SourceChosen ==
    /\ sourceId = NotChosen
    /\ sourceId' = IF Len(sources) = 0 THEN NoSources ELSE ChosenId(sources)
    /\ UNCHANGED <<sources, srcRest>>

NextSources == SourceChosen

InitChoice ==
    /\ InitRecording
    /\ InitStore(<<>>, NoChats)
    /\ InitWav(NoBuffer)
    /\ InitMix(Silence)
    /\ \E list \in SourceLists : InitSources(list)
    /\ InitSingle

SpecSources == InitChoice /\ [][NextSources]_vars

\* ------------------------------------- single-meeting Chat: sendMessage
singleRest == <<ctlVars, lastCall, stopRun, hVars, appVars, wavVars, mixVars,
                srcVars>>

\* The transcript prop changes: the effect clears the messages and the
\* error.
TranscriptChanged(t) ==
    /\ t # single.transcript
    /\ single' = [single EXCEPT !.transcript = t, !.messages = <<>>,
                                !.error = ""]
    /\ UNCHANGED singleRest

\* sendMessage of the single-meeting build up to its await of fetch.
sendMessageSingle(blank, disabled) ==
    /\ IF blank \/ single.isLoading \/ disabled
       THEN UNCHANGED single
       ELSE /\ single.turn < MaxTurns
            /\ single' = [single EXCEPT
                            !.turn = @ + 1,
                            !.messages = Append(@, UserMessage(single.turn + 1)),
                            !.isLoading = TRUE,
                            !.error = ""]
    /\ UNCHANGED singleRest

\* The response is read: setMessages((prev) => [...prev, assistantMessage]).
ResponseOkSingle(body) ==
    /\ single.isLoading
    /\ single' = [single EXCEPT
                    !.messages = Append(@, [role |-> "assistant",
                                            content |-> Completion(body, single.turn)]),
                    !.isLoading = FALSE]
    /\ UNCHANGED singleRest

\* The response is not ok, or fetch or response.json() rejects.
ResponseFailSingle(msg) ==
    /\ single.isLoading
    /\ single' = [single EXCEPT !.error = msg, !.isLoading = FALSE]
    /\ UNCHANGED singleRest

NextSingle ==
    \/ \E t \in SingleTranscripts : TranscriptChanged(t)
    \/ \E blank \in BOOLEAN, disabled \in BOOLEAN : sendMessageSingle(blank, disabled)
    \/ \E body \in Bodies : ResponseOkSingle(body)
    \/ \E msg \in ChatFailures : ResponseFailSingle(msg)

SpecSingle == Init /\ [][NextSingle]_vars

\* ------------------------------------------------------- specification
Next ==
    \/ ClickStart
    \/ ClickStop
    \/ Unmount
    \/ \E m \in {"system", "microphone"} : SelectMode(m)
    \/ \E i \in CallIds : SourcesOk(i)
    \/ \E i \in CallIds : SourcesFail(i)
    \/ \E i \in CallIds : SystemStreamOk(i)
    \/ \E i \in CallIds : SystemStreamFail(i)
    \/ \E i \in CallIds : MicStreamOk(i)
    \/ \E i \in CallIds : MicStreamFail(i)
    \/ \E i \in CallIds : MicOk(i)
    \/ \E i \in CallIds : MicFail(i)
    \/ \E i \in CallIds : FallbackMicOk(i)
    \/ \E i \in CallIds : FallbackMicFail(i)
    \/ \E t \in CallIds : Tick(t)
    \/ \E r \in CallIds : RecorderTracksEnded(r)
    \/ \E r \in CallIds, size \in {0, 1} : RecorderStopped(r, size)
    \/ \E r \in CallIds : BufferRead(r)
    \/ \E r \in CallIds : DecodeOk(r)
    \/ \E r \in CallIds : DecodeFail(r)
    \/ \E r \in CallIds : ContextClosed(r)
    \/ \E r \in CallIds : SaveOk(r)
    \/ \E r \in CallIds : SaveFail(r)
    \/ \E p \in ProgressStatuses : ProgressEvent(p)
    \/ \E r \in CallIds, text \in Texts : TranscribeOk(r, text)
    \/ \E r \in CallIds : TranscribeError(r)
    \/ \E r \in CallIds : TranscribeRejected(r)

Spec == Init /\ [][Next]_vars

\* ================================================================ claims
isRecording == recordingState.isRecording
isTranscribing == recordingState.isTranscribing

\* The recorders that record.
LiveRecorders == {r \in CallIds : recorders[r] = "recording"}

\* The tracks call i acquired that are live.
LiveTracksOf(i) == {t \in tracks : t[1] = i}

\* A step in which invocation i of startRecording ends without a recorder.
StartFails(i) ==
    /\ calls[i] \notin {"idle", "returned"}
    /\ calls'[i] = "returned"
    /\ recorders'[i] # "recording"

\* A step in which the processing of recorder r ends in its catch block.
ProcessingFails(r) == proc[r] # "failed" /\ proc'[r] = "failed"

\* A step in which the processing of recorder r ends.
ProcessingEnds(r) ==
    /\ \/ recorders[r] = "stopping" /\ recorders'[r] = "inactive"
       \/ proc[r] \in ProcPositions
    /\ proc'[r] \in {"success", "failed"}

\* C1: a start() while the controller records or transcribes is a no-op:
\* state, transcript, error, progress, the chunk buffer and the references
\* are unchanged, and no acquisition, recorder or interval is started.
C1_StartIsNoOp ==
    [][(lastCall' = "start" /\ (isRecording \/ isTranscribing))
          => UNCHANGED ctlVars]_vars

C1_Witness ==
    /\ lastCall = "start"
    /\ isTranscribing
    /\ \E r \in CallIds : proc[r] = "transcribe"

\* C2: at most one cycle is active: never two recorders that record, never
\* two scheduled intervals, never recording and transcribing at once.
C2_SingleCycle ==
    /\ Cardinality(LiveRecorders) <= 1
    /\ Cardinality(timers) <= 1
    /\ ~(isRecording /\ isTranscribing)

\* C3: an accepted stop() stops every track the start() of the stopped
\* recorder acquired, closes the mixer context and cancels the interval.
C3_StopReleasesAll ==
    [][(lastCall' = "stop" /\ StopAccepted)
          => /\ LiveTracksOf(mediaRecorderRef)' = {}
             /\ mediaRecorderRef \notin mixers'
             /\ mediaRecorderRef \notin timers']_vars

\* C4: after a second stop() right after a stop(), and after an unmount
\* while recording, no track acquired for the recorder is live and the
\* recorder is not started again.
C4_ReleaseIdempotent ==
    (stopRun = 2 \/ (lastCall = "unmount" /\ isRecording /\ mediaRecorderRef # NoRef))
        => /\ LiveTracksOf(mediaRecorderRef) = {}
           /\ recorders[mediaRecorderRef] # "recording" \/ lastCall = "unmount"

\* C5: a start() whose system acquisition failed and whose microphone was
\* acquired ends recording the microphone stream with the fallback warning
\* in the error field.
C5_FallbackRecords ==
    [][\A i \in CallIds :
          (mounted /\ calls[i] = "fallbackMic" /\ recorders'[i] = "recording")
             => /\ isRecording'
                /\ streamRef' = <<i, "microphone">>
                /\ error' = FallbackWarning]_vars

\* C6: the fallback sets the mode to microphone, and the mode goes from
\* microphone to system only by the user's selection.
C6_ModeSticky ==
    [][/\ \A i \in CallIds :
            (mounted /\ calls[i] = "fallbackMic" /\ <<i, "microphone">> \in tracks')
               => recordingMode' = "microphone"
       /\ (recordingMode = "microphone" /\ recordingMode' = "system")
               => lastCall' = "select"]_vars

C6_Witness ==
    /\ recordingMode = "microphone"
    /\ error = FallbackWarning
    /\ isRecording
    /\ mediaRecorderRef # NoRef
    /\ streamRef = <<mediaRecorderRef, "microphone">>

\* C7: a cycle whose recorder delivered no non-empty chunk ends idle with
\* the no-audio message, and nothing is saved or transcribed for it.
C7_EmptyRecording ==
    [][\A r \in CallIds :
          (/\ mounted
           /\ recorders[r] = "stopping" /\ recorders'[r] = "inactive"
           /\ audioChunksRef' = audioChunksRef)
             => /\ ~isRecording' /\ ~isTranscribing'
                /\ error' = NoAudioMessage
                /\ proc'[r] = "failed"]_vars

\* C8: every failure of a start() or of the processing leaves a non-empty
\* error message and the controller idle, so that start() is accepted.
C8_FailureToIdle ==
    [][\A i \in CallIds :
          (mounted /\ (StartFails(i) \/ ProcessingFails(i)))
             => /\ error' # ""
                /\ ~isRecording' /\ ~isTranscribing'
                /\ StartButtonEnabled']_vars

\* C9: the duration is 0 right after every exit from recording, and the
\* state is {false, false, 0} when a session ends.
C9_DurationReset ==
    [][/\ (isRecording /\ ~isRecording')
             => recordingState'.recordingDuration = 0
       /\ \A r \in CallIds :
            (mounted /\ ProcessingEnds(r))
               => recordingState' = [isRecording |-> FALSE,
                                     isTranscribing |-> FALSE,
                                     recordingDuration |-> 0]]_vars

\* A processRecording is between its first await and its end.
Processing(r) == proc[r] \in ProcPositions

\* C11: isTranscribing is cleared only by the end of the pipeline of the
\* cycle that transcribes, after which no pipeline is still in progress, and
\* never by a user operation; and while the controller transcribes a
\* pipeline is in progress, so that the resolution of its pending external
\* call moves it on, whatever progress events arrive.
C11_TranscribingEnds ==
    [][/\ (mounted /\ isTranscribing /\ ~isTranscribing')
             => /\ lastCall' = "none"
                /\ \E r \in CallIds : ProcessingEnds(r)
                /\ \A q \in CallIds : ~Processing(q)'
       /\ (mounted' /\ isTranscribing')
             => \E r \in CallIds : Processing(r)']_vars

\* C12: a cycle has notified the parent exactly once, with the text it
\* stored as the transcript, if its transcription resolved without error,
\* and never otherwise.
C12_NotifyOnSuccess ==
    [][\A r \in CallIds :
          /\ Len(notified'[r]) = IF proc'[r] = "success" THEN 1 ELSE 0
          /\ (mounted /\ proc[r] = "transcribe" /\ proc'[r] = "success")
                => /\ notified'[r] = <<transcript'>>
                   /\ transcript' \in Texts]_vars

C12_Witness ==
    /\ \E r \in CallIds : proc[r] = "success" /\ notified[r] = <<"hello">>
    /\ \E r \in CallIds : proc[r] = "failed" /\ notified[r] = <<>>
    /\ transcript = "hello"

\* The messages a failed start() or a failed cycle leaves in the error field.
FailureMessages == {NoAudioMessage, AcquireError, RecorderError, DecodeError,
                    SaveError, EngineError, InvokeError}

\* C13: a failure message in the error field stays set until the next
\* start(), which clears the field.
C13_ErrorPersists ==
    [][/\ (mounted /\ error \in FailureMessages /\ error' \notin FailureMessages)
             => lastCall' = "start"
       /\ (lastCall' = "start" /\ StartButtonEnabled) => error' = ""]_vars

Terminal(status) == status \in {"complete", "error"}

\* A transcribe-audio call that takes no further step: it resolved, or it
\* waits for a "close" that never comes.
CallEnded == hpc \in {"resolved", "hung"}

\* C10: a transcribe-audio call that has ended has sent exactly one
\* terminal event, as its last event; a terminal event is never followed by
\* another event; and the call resolves with an error exactly if its
\* terminal event is error, the text then being empty.
C10_OneTerminalEvent ==
    /\ \A k \in 1..(Len(hEvents) - 1) : ~Terminal(hEvents[k])
    /\ hpc = "running" => \A k \in 1..Len(hEvents) : ~Terminal(hEvents[k])
    /\ CallEnded
         => /\ hEvents # <<>>
            /\ Terminal(hEvents[Len(hEvents)])
    /\ hpc = "resolved"
         => /\ (hResult.error # "none") <=> (hEvents[Len(hEvents)] = "error")
            /\ hResult.error # "none" => hResult.text = <<>>

\* The call that sent its first event and then lost its engine.
C10_Witness ==
    /\ hpc = "hung"
    /\ hVariant = "spawn"
    /\ hEvents = <<"downloading">>
    /\ hResult = NoResult

\* ------------------------------------------------- claims on chat and store
\* The steps of a sendMessage call: it passes the guard; its response is
\* read; its catch block runs.
Asks == flight = NoFlight /\ flight' # NoFlight
AskSucceeds == flight # NoFlight /\ flight' = NoFlight /\ chatError' = ""
AskFails == flight # NoFlight /\ flight' = NoFlight /\ chatError' # ""

MessagesOf(ms, id) == Find(ms, id).messages

\* The messages the store holds for the meeting are msgs, as long as the
\* meeting is in the store.
Stored(ms, id, msgs) == IsFound(ms, id) => MessagesOf(ms, id) = msgs

IsPrefix(a, b) == Len(a) <= Len(b) /\ SubSeq(b, 1, Len(a)) = a

\* C14: a sendMessage call writes the prior messages followed by the new
\* user message, and when it fails that sequence stays as it is: no
\* assistant message is added, the user message is not taken back, and the
\* error is set.
C14_FailedTurnKeepsUserMessage ==
    [][/\ Asks => /\ chatMessages' = Append(chatMessages, UserMessage(turn'))
                  /\ flight'.updated = chatMessages'
                  /\ MessagesOf(meetings', flight'.meeting) = chatMessages'
       /\ AskFails => /\ chatMessages' = chatMessages
                      /\ meetings' = meetings
                      /\ Stored(meetings', flight.meeting, flight.updated)
                      /\ flight.updated[Len(flight.updated)] = UserMessage(turn)
                      /\ chatError' \in ChatFailures
                      /\ ~isLoading']_vars

C14_Witness ==
    /\ chatError = ApiError
    /\ flight = NoFlight
    /\ Len(chatMessages) = 3
    /\ chatMessages[3] = UserMessage(2)
    /\ MessagesOf(meetings, currentMeetingId) = chatMessages

C16_RequestOrder ==
    [][Asks =>
          LET req == flight'.request
              n == Len(chatMessages)
          IN  /\ Len(req) = n + 3
              /\ req[1] = [role |-> "system", content |-> SYSTEM_PROMPT]
              /\ req[2] = [role |-> "system",
                           content |-> Context(CurrentTranscript(meetings,
                                                                 currentMeetingId))]
              /\ \A k \in 1..n : req[2 + k] = chatMessages[k]
              /\ req[n + 3] = UserMessage(turn')
              /\ Cardinality({k \in 1..Len(req) : req[k] = UserMessage(turn')}) = 1]_vars

C16_Witness ==
    /\ flight # NoFlight
    /\ Len(flight.request) = 5
    /\ flight.request[3] = UserMessage(1)
    /\ flight.request[4].role = "assistant"
    /\ flight.request[5] = UserMessage(2)

\* C17: in every step every meeting stays in the store and keeps its
\* previous messages as a prefix of its messages.
C17_AppendOnly ==
    [][\A id \in Ids(meetings) :
          /\ IsFound(meetings', id)
          /\ IsPrefix(MessagesOf(meetings, id), MessagesOf(meetings', id))]_vars

\* C18: a meeting's messages hold only user messages of turns asked while
\* that meeting was selected, and a change of the current meeting leaves
\* the messages of every meeting as they are.
C18_NoCrossMeetingWrites ==
    [][/\ \A id \in Ids(meetings'), k \in 1..MaxTurns :
            (\E j \in 1..Len(MessagesOf(meetings', id)) :
                 MessagesOf(meetings', id)[j] = UserMessage(k))
               => turnMeeting'[k] = id
       /\ currentMeetingId' # currentMeetingId
            => \A id \in Ids(meetings) :
                  /\ IsFound(meetings', id)
                  /\ MessagesOf(meetings', id) = MessagesOf(meetings, id)]_vars

\* C19: the messageCount of every meeting is the length of its messages.
C19_MessageCount ==
    \A k \in 1..Len(meetings) :
        meetings[k].messageCount = Len(meetings[k].messages)

C19_Witness ==
    \E k \in 1..Len(meetings) :
        /\ meetings[k].messageCount = 2
        /\ meetings[k].messages[2].role = "assistant"

\* C20: a selection requests the transcript of a meeting only if it was not
\* requested since the store was built.
C20_FetchOnce ==
    [][\A id \in MeetingIds :
          (loads' = loads /\ fetching'[id] > fetching[id]) => id \notin fetched]_vars

\* ------------------------------------------- claims on the persisted chats
\* A step in which loadRecordings built a store from the enumerated list.
StoreLoaded == loads' < loads /\ meetings' # <<>>

\* C21: the chats the last session persisted are restored at startup: a
\* store loaded before any question was asked gives every enumerated
\* recording that has a persisted chat exactly that chat as its messages.
C21_ChatsRestored ==
    [][(StoreLoaded /\ turn = 0)
          => \A id \in Ids(meetings') \cap DOMAIN previousChats :
                MessagesOf(meetings', id) = previousChats[id]]_vars

\* The mapping from meeting id to messages, for the meetings with a message.
ChatsOf(ms) ==
    [id \in {ms[k].id : k \in {j \in 1..Len(ms) : Len(ms[j].messages) > 0}}
        |-> MessagesOf(ms, id)]

\* C22: after every step that changes the messages of a meeting, the
\* persisted chats are the full current mapping from meeting id to messages,
\* for the meetings with at least one message; and so they are in every
\* state once the application has mounted.
C22_WriteThrough ==
    [][/\ (\E id \in Ids(meetings) \cap Ids(meetings') :
               MessagesOf(meetings', id) # MessagesOf(meetings, id))
            => storedChats' = ChatsOf(meetings')
       /\ appMounted' => storedChats' = ChatsOf(meetings')]_vars

C22_Witness ==
    /\ Len(meetings) = 2
    /\ Len(meetings[1].messages) >= 2
    /\ Len(meetings[2].messages) >= 1
    /\ DOMAIN storedChats = {"A", "B"}
    /\ flight # NoFlight

\* C23: a recording that has a persisted chat and is absent from the
\* enumerated list is a meeting of the loaded store, with an empty
\* transcript.
C23_OrphanKept ==
    [][(StoreLoaded /\ turn = 0)
          => \A id \in DOMAIN previousChats :
                id \notin {Listing(disk)[k] : k \in 1..Len(Listing(disk))}
                   => /\ IsFound(meetings', id)
                      /\ Find(meetings', id).transcript = ""]_vars

\* ------------------------------------------------- claims on the WAV file
\* Reading the file back, little-endian.
ReadUint16(file, offset) == file[offset + 1] + 256 * file[offset + 2]
ReadUint32(file, offset) ==
    file[offset + 1] + 256 * file[offset + 2] + 65536 * file[offset + 3]
        + 16777216 * file[offset + 4]
ReadInt16(file, offset) ==
    LET u == ReadUint16(file, offset)
    IN  IF u >= 32768 THEN u - 65536 ELSE u

\* The encoded value of sample i of channel ch (both from 0).
Encoded(file, buf, i, ch) ==
    ReadInt16(file, 44 + 2 * (i * buf.numberOfChannels + ch))

\* C24: the file of a buffer with c channels, rate r and n samples per
\* channel is 44 + n*c*2 bytes long, and the fields of its header read back
\* as channelCount c, sampleRate r, dataLength n*c*2, RIFF size 36 +
\* dataLength, byteRate r*c*2, blockAlign c*2 and bitsPerSample 16.
C24_WavHeader ==
    wavBuffer # <<>> =>
        LET c == audioBuffer.numberOfChannels
            r == audioBuffer.sampleRate
            n == audioBuffer.length
        IN  /\ Len(wavBuffer) = 44 + n * c * 2
            /\ ReadUint16(wavBuffer, 22) = c
            /\ ReadUint32(wavBuffer, 24) = r
            /\ ReadUint32(wavBuffer, 40) = n * c * 2
            /\ ReadUint32(wavBuffer, 4) = 36 + n * c * 2
            /\ ReadUint32(wavBuffer, 28) = r * c * 2
            /\ ReadUint16(wavBuffer, 32) = c * 2
            /\ ReadUint16(wavBuffer, 34) = 16

C24_Witness ==
    /\ wavBuffer # <<>>
    /\ audioBuffer.numberOfChannels = 2
    /\ audioBuffer.sampleRate = 44100
    /\ audioBuffer.length = 2
    /\ Len(wavBuffer) = 52

\* C25: 1.0 is encoded as 32767 and -1.0 as -32768; a sample above 1.0 is
\* encoded as 1.0 is and a sample below -1.0 as -1.0 is; every encoded
\* value lies in -32768..32767.
C25_Quantization ==
    wavBuffer # <<>> =>
        \A i \in 0..(audioBuffer.length - 1),
           ch \in 0..(audioBuffer.numberOfChannels - 1) :
            LET sample == audioBuffer.channels[ch + 1][i + 1]
                value == Encoded(wavBuffer, audioBuffer, i, ch)
            IN  /\ sample >= SampleUnit => value = 32767
                /\ sample <= -SampleUnit => value = -32768
                /\ value \in -32768..32767

C25_Witness ==
    /\ wavBuffer # <<>>
    /\ audioBuffer.numberOfChannels = 2
    /\ audioBuffer.channels = <<<<6, -6>>, <<4, -4>>>>
    /\ Encoded(wavBuffer, audioBuffer, 0, 0) = 32767
    /\ Encoded(wavBuffer, audioBuffer, 1, 0) = -32768
    /\ Encoded(wavBuffer, audioBuffer, 0, 1) = 32767
    /\ Encoded(wavBuffer, audioBuffer, 1, 1) = -32768

\* ------------------------------------------------- claims on the pipeline
\* A step in which recorder r delivers its data and processRecording starts.
Stops(r) == recorders[r] = "stopping" /\ recorders'[r] = "inactive"

\* C26: the blob processRecording builds when recorder r has stopped holds
\* the non-empty chunk r delivered, once, and nothing else: no chunk of
\* another recorder, and no chunk is lost.
C26_BlobOfCycle ==
    [][\A r \in CallIds :
          Stops(r)
             => LET blob == MakeBlob(audioChunksRef')
                IN  /\ \A k \in 1..Len(blob) : blob[k] = r
                    /\ Len(blob) <= 1
                    /\ Len(audioChunksRef') > Len(audioChunksRef)
                          => blob = <<r>>]_vars

\* ------------------------------------------ claims on transcribe-audio
\* The engine process ended with a code other than 0, or without any
\* transcript output: no transcript file and nothing on stdout.
EngineFailed ==
    /\ hExit # NoExit
    /\ hExit.code # "0" \/ (~hExit.written /\ outputText = <<>>)

\* C27: a call whose engine process ended with anything but exit code 0, or
\* without its transcript output, resolves with the empty text and an
\* error, never with a success result.
C27_EngineFailureIsError ==
    (hpc = "resolved" /\ EngineFailed)
        => /\ hResult.error # "none"
           /\ hResult.text = <<>>

\* C28: when a transcribe-audio call has resolved, with a transcript or with
\* an error, the audio file it was given has been deleted.
C28_AudioDeleted ==
    hpc = "resolved" => "audio" \notin hFiles

\* ------------------------------------------------- claims on the mixer
\* C29: the mixed stream has exactly one audio track, whose signal at each
\* instant is systemSample * systemGain + micSample * micGain with
\* systemGain 1.0 and micGain above 1.0; each input goes through its own
\* gain node and both gain nodes feed the one destination.
C29_MixedSignal ==
    mixedTracks # {} =>
        /\ Cardinality(mixedTracks) = 1
        /\ gainValue["systemGain"] = 1
        /\ gainValue["micGain"] > 1
        /\ \A t \in 1..MaxInstants :
              MixedSignal[t] = mixInput.system[t] * gainValue["systemGain"]
                                 + mixInput.mic[t] * gainValue["micGain"]
        /\ connections = {<<"systemSource", "systemGain">>,
                          <<"systemGain", "destination">>,
                          <<"micSource", "micGain">>,
                          <<"micGain", "destination">>}

C29_Witness ==
    /\ mixedTracks = {"destination"}
    /\ mixInput.system = <<4, -1>>
    /\ mixInput.mic = <<2, -4>>
    /\ MixedSignal = <<16, -25>>

\* The moves of one cycle's processRecording: each stage is entered from the
\* stage before it, once, and a failure or the success ends the cycle.
StageMoves ==
    {<<"none", "buffer">>, <<"none", "failed">>,
     <<"buffer", "decode">>,
     <<"decode", "closing">>, <<"decode", "failed">>,
     <<"closing", "save">>,
     <<"save", "transcribe">>, <<"save", "failed">>,
     <<"transcribe", "success">>, <<"transcribe", "failed">>}

\* C30: in one cycle the stages run in order and at most once each:
\* saveAudioFile is called only when the conversion has returned,
\* transcribeAudio only when saveAudioFile has resolved, and after a failed
\* stage no later stage runs.
C30_StagesInOrder ==
    [][\A r \in CallIds :
          /\ proc'[r] # proc[r] => <<proc[r], proc'[r]>> \in StageMoves
          /\ proc'[r] = "save" => proc[r] \in {"closing", "save"}
          /\ proc'[r] = "transcribe" => proc[r] \in {"save", "transcribe"}
          /\ proc[r] \in {"failed", "success"} => proc'[r] = proc[r]]_vars

C30_Witness ==
    /\ \E r \in CallIds : proc[r] = "success"
    /\ \E r \in CallIds : proc[r] = "failed"
    /\ error = SaveError
    /\ ~isTranscribing

\* ------------------------------------------------ claims on the duration
duration == recordingState.recordingDuration

\* C31: while the controller records, a step leaves the duration or adds
\* exactly 1 to it, and while it does not record, from an accepted stop()
\* to the next start, no tick changes the duration.
C31_DurationMonotonic ==
    [][/\ (mounted /\ isRecording /\ isRecording')
             => duration' \in {duration, duration + 1}
       /\ (mounted /\ ~isRecording /\ ~isRecording')
             => duration' = duration]_vars

\* C32: a progress event only overwrites the stored progress: the recording
\* state, the transcript, the error and the position and outcome of every
\* cycle are as before, so that the events a cycle receives or misses do not
\* change how it ends.
C32_ProgressOnly ==
    [][(progress' # progress /\ progress' \in ProgressStatuses)
          => UNCHANGED <<recordingState, transcript, error, proc, notified,
                         audioChunksRef, recorders, captureVars>>]_vars

C32_Witness ==
    /\ progress = "error"
    /\ \E r \in CallIds : proc[r] = "success" /\ notified[r] = <<"hello">>
    /\ transcript = "hello"
    /\ error = ""
    /\ ~isTranscribing

\* C33: convertToWav closes the decoding context it creates on every path:
\* a decoding context is open only while its conversion is decoding or
\* closing it, and none is open once the call has returned or thrown.
C33_DecoderClosed ==
    \A r \in decodeContexts : proc[r] \in {"decode", "closing"}

\* ------------------------------------------- claims on the capture source
\* The name in lower case.
LowerCase(name) ==
    [k \in 1..Len(name) |->
        CASE name[k] = "S" -> "s"
          [] name[k] = "C" -> "c"
          [] name[k] = "R" -> "r"
          [] name[k] = "E" -> "e"
          [] name[k] = "N" -> "n"
          [] name[k] = "W" -> "w"
          [] OTHER -> name[k]]

\* The sources whose name holds the token "screen", whatever the case.
ScreenSources(list) ==
    {k \in 1..Len(list) :
        Includes(LowerCase(list[k].name), <<"s", "c", "r", "e", "e", "n">>)}

\* C34: for a non-empty list the chosen source is the first whose name
\* holds "screen", compared without regard to case, else the first of the
\* list; an empty list fails with no source available.
C34_SourceChoice ==
    sourceId # NotChosen =>
        IF sources = <<>> THEN sourceId = NoSources
        ELSE IF ScreenSources(sources) = {} THEN sourceId = sources[1].id
        ELSE \E k \in ScreenSources(sources) :
                /\ sourceId = sources[k].id
                /\ \A j \in ScreenSources(sources) : k <= j

\* ------------------------------------------- claims on the resources
\* The controller neither records nor transcribes and no invocation of
\* startRecording is between its call and its return.
Idle ==
    /\ ~isRecording
    /\ ~isTranscribing
    /\ \A i \in CallIds : calls[i] \in {"idle", "returned"}

\* C35: an idle controller with no start() in progress holds no capture
\* resource: no acquired track is live, no mixer context is open and no
\* interval is scheduled.
C35_IdleHoldsNothing ==
    (mounted /\ Idle) => /\ tracks = {}
                         /\ mixers = {}
                         /\ timers = {}

\* The positions of an invocation of startRecording made in system mode,
\* before its fallback.
SystemPositions == {"sources", "systemStream", "micStream"}

\* C36: the fallback, with its warning and its switch of the mode, is
\* entered only by an invocation made in system mode; an invocation made in
\* microphone mode whose microphone is refused returns with that failure as
\* the error, without a second acquisition.
C36_FallbackOnlyFromSystem ==
    [][\A i \in CallIds :
          /\ (calls'[i] = "fallbackMic" /\ calls[i] # "fallbackMic")
                => calls[i] \in SystemPositions
          /\ (mounted /\ calls[i] = "mic" /\ calls'[i] # "mic"
                /\ <<i, "microphone">> \notin tracks')
                => /\ calls'[i] = "returned"
                   /\ error' = AcquireError]_vars

\* ------------------------------------- claims on the single-meeting Chat
\* C37: a change of the transcript clears the messages, and cleared messages
\* stay empty until the next sendMessage call that passes its guard: the
\* response to a request made under the old transcript is not appended.
C37_ClearedStaysEmpty ==
    [][/\ single'.transcript # single.transcript => single'.messages = <<>>
       /\ (single.messages = <<>> /\ single'.messages # <<>>)
             => /\ single'.turn = single.turn + 1
                /\ single'.messages = <<UserMessage(single'.turn)>>]_vars

\* ------------------------------------------------ claims on the Chat guard
\* C38: sendMessage changes nothing when the input is blank, when a request
\* is in flight, or when the chat is disabled because the transcript of the
\* current meeting is empty: no step counts a turn (appends a question) or
\* sends a request while isLoading or disabled, so a request is sent only
\* when none is in flight, and the transcript of a request is never empty.
C38_GuardedAsk ==
    [][/\ sendMessage(TRUE) => UNCHANGED appVars
       /\ (isLoading \/ ChatDisabled)
             => /\ turn' = turn
                /\ flight' \in {flight, NoFlight}
       /\ turn' # turn => flight = NoFlight /\ flight' # NoFlight
       /\ flight' # NoFlight
             => flight'.request[2].content # Context("")]_vars

\* A second request is in flight, sent with the transcript, after the first
\* was answered.
C38_Witness ==
    /\ isLoading
    /\ flight # NoFlight
    /\ turn = 2
    /\ flight.request[2].content = Context("transcript")

\* ------------------------------------------ claims on the current meeting
\* C39: currentMeetingId is null or the id of a meeting of the store, and a
\* loadRecordings call whose list is not empty leaves the first meeting of
\* that list current.
C39_CurrentInStore ==
    /\ [](currentMeetingId = NoMeeting \/ IsFound(meetings, currentMeetingId))
    /\ [][(loads' = loads - 1 /\ meetings' # <<>> /\ fetching' # fetching)
             => currentMeetingId' = meetings'[1].id]_vars

====
